---- MODULE Spec2Model ----
(***************************************************************************)
(* The gcd command-line program of src/src/main.rs: main parses its        *)
(* arguments as u64 values, folds gcd over them from left to right and     *)
(* prints the result; gcd is Euclid's algorithm behind an assertion that   *)
(* both operands are non-zero.                                             *)
(*                                                                         *)
(* Spec     : a run of main on an argument list fixed at process start.    *)
(* GcdSpec  : gcd applied directly to a pair of operands, as test_gcd does.*)
(* FairGcdSpec : GcdSpec with the progress a sequential program makes.     *)
(*                                                                         *)
(* An argument is a sequence of one-character strings.  u64 is modelled    *)
(* with WordBits bits, so that the overflow case of the parser is reached  *)
(* by two-digit arguments.                                                 *)
(***************************************************************************)
EXTENDS Integers, Sequences, FiniteSets

VARIABLES
    args,     \* std::env::args().skip(1): the argument texts, fixed at start
    i,        \* number of arguments the for loop of main has consumed
    numbers,  \* the Vec<u64> of parsed values
    pc,       \* position of main
    d,        \* the accumulator: <<>> before `let mut d`, <<v>> after
    j,        \* 1-based index of the next element of numbers[1..] to fold
    calls,    \* history of the invocations gcd(n, m) made by main
    stdout,   \* lines written to standard output
    stderr,   \* diagnostics written to standard error
    exit,     \* <<>> while running, <<status>> once the process has ended
    gpc,      \* position inside gcd ("idle" when no call is active)
    n,        \* gcd's first parameter (mut n)
    m,        \* gcd's second parameter (mut m)
    n0,       \* the value of n at entry of the active call
    m0,       \* the value of m at entry of the active call
    iters,    \* completed iterations of the while loop of the active call
    ret       \* the value returned by the last call: <<>> or <<v>>

vars == <<args, i, numbers, pc, d, j, calls, stdout, stderr, exit,
          gpc, n, m, n0, m0, iters, ret>>

mainVars == <<args, i, numbers, pc, d, j, calls, stdout>>
frameVars == <<n, m, n0, m0, iters, ret>>

\* ------------------------------------------------------------------ bounds

MaxArgs == 3

WordBits == 4

MaxU64 == 2^WordBits - 1

\* The argument texts a run may be given: empty, plain digits, a leading
\* zero, a sign, a lone sign, a letter, trailing whitespace, too large.
ArgTexts ==
    { <<>>, <<"0">>, <<"4">>, <<"6">>, <<"1", "0">>, <<"1", "5">>,
      <<"0", "6">>, <<"+", "6">>, <<"-", "6">>, <<"+">>, <<"a">>,
      <<"6", " ">>, <<"9", "9">> }

\* --------------------------------------------------------- u64::from_str

Digits == <<"0", "1", "2", "3", "4", "5", "6", "7", "8", "9">>

IsDigit(c) == \E k \in 1..Len(Digits) : Digits[k] = c

DigitOf(c) == (CHOOSE k \in 1..Len(Digits) : Digits[k] = c) - 1

Ok(v) == [ok |-> TRUE, val |-> v, kind |-> "none"]

Err(e) == [ok |-> FALSE, val |-> 0, kind |-> e]

\* The digit loop of the parser: each character must be a decimal digit,
\* and the checked multiply and the checked add must stay within u64.
RECURSIVE ParseDigits(_, _, _)
ParseDigits(s, k, acc) ==
    IF k > Len(s) THEN Ok(acc)
    ELSE IF ~IsDigit(s[k]) THEN Err("InvalidDigit")
    ELSE IF acc * 10 > MaxU64 THEN Err("PosOverflow")
    ELSE IF acc * 10 + DigitOf(s[k]) > MaxU64 THEN Err("PosOverflow")
    ELSE ParseDigits(s, k + 1, acc * 10 + DigitOf(s[k]))

\* u64::from_str(&arg): base 10, an optional leading "+", no "-" for an
\* unsigned type, no whitespace.
ParseU64(s) ==
    IF Len(s) = 0 THEN Err("Empty")
    ELSE IF Len(s) = 1 /\ s[1] \in {"+", "-"} THEN Err("InvalidDigit")
    ELSE IF s[1] = "+" THEN ParseDigits(s, 2, 0)
    ELSE ParseDigits(s, 1, 0)

\* ------------------------------------------------------------ diagnostics

ParseDiagnosticNamingArg(arg, e) == <<"error parsing argument", arg, e>>

\* What .expect("error parsing argument") writes when from_str(&arg) is
\* Err(e): the fixed text and the description of e.
ParseDiagnostic(arg, e) == <<"error parsing argument", e>>

UsageMsg == <<"Usage: gcd NUMBER ...">>

AssertMsg == <<"assertion failed: n != 0 && m != 0">>

RemMsg == <<"attempt to calculate the remainder with a divisor of zero">>

IndexMsg == <<"index out of bounds">>

\* ------------------------------------------------------------------- gcd

AssertEitherNonZero(x, y) == x # 0 \/ y # 0

\* assert!(n != 0 && m != 0)
AssertOk(x, y) == x # 0 /\ y # 0

SwapNoTemp(x, y) ==
    IF y < x
    THEN LET m1 == x
             n1 == m1
         IN  <<n1, m1>>
    ELSE <<x, y>>

\* if m < n { let t = m; m = n; n = t; }  -- the pair <<n, m>> afterwards
SwapStep(x, y) ==
    IF y < x
    THEN LET t == y
             m1 == x
             n1 == t
         IN  <<n1, m1>>
    ELSE <<x, y>>

RemOfFirstBySecond(x, y) == x % y

\* m = m % n  -- the new m
RemStep(x, y) == y % x

\* The whole of gcd after its assertion, as a function of <<n, m>>.
RECURSIVE GcdLoop(_, _)
GcdLoop(x, y) ==
    IF y # 0
    THEN LET s == SwapStep(x, y)
         IN  GcdLoop(s[1], RemStep(s[1], s[2]))
    ELSE x

\* ------------------------------------------------------------------ main

EmptyOrSingle(v) == Len(v) <= 1

\* numbers.len() == 0
NoNumbers(v) == Len(v) = 0

Running == exit = <<>>

Init ==
    /\ args \in UNION {[1..k -> ArgTexts] : k \in 0..MaxArgs}
    /\ i = 0
    /\ numbers = <<>>
    /\ pc = "parse"
    /\ d = <<>>
    /\ j = 0
    /\ calls = <<>>
    /\ stdout = <<>>
    /\ stderr = <<>>
    /\ exit = <<>>
    /\ gpc = "idle"
    /\ n = 0 /\ m = 0 /\ n0 = 0 /\ m0 = 0 /\ iters = 0
    /\ ret = <<>>

ParseArgSkipBad ==
    /\ pc = "parse" /\ i < Len(args)
    /\ LET r == ParseU64(args[i + 1])
       IN  /\ i' = i + 1
           /\ numbers' = IF r.ok THEN Append(numbers, r.val) ELSE numbers
           /\ UNCHANGED <<pc, stderr, exit>>
    /\ UNCHANGED <<args, d, j, calls, stdout, gpc>>
    /\ UNCHANGED frameVars

\* One pass of `for arg in args().skip(1)`: push the parsed value, or
\* panic with the diagnostic of expect.
ParseArg ==
    /\ pc = "parse" /\ i < Len(args)
    /\ LET arg == args[i + 1]
           r == ParseU64(arg)
       IN  /\ i' = i + 1
           /\ IF r.ok
              THEN /\ numbers' = Append(numbers, r.val)
                   /\ UNCHANGED <<pc, stderr, exit>>
              ELSE /\ pc' = "parse_panic"
                   /\ stderr' = Append(stderr, ParseDiagnostic(arg, r.kind))
                   /\ exit' = <<101>>
                   /\ UNCHANGED numbers
    /\ UNCHANGED <<args, d, j, calls, stdout, gpc>>
    /\ UNCHANGED frameVars

\* The iterator is exhausted.
ParseEnd ==
    /\ pc = "parse" /\ i = Len(args)
    /\ pc' = "check"
    /\ UNCHANGED <<args, i, numbers, d, j, calls, stdout, stderr, exit, gpc>>
    /\ UNCHANGED frameVars

\* if numbers.len() == 0 { writeln!(stderr, usage); exit(1) }
CheckLen ==
    /\ pc = "check"
    /\ IF NoNumbers(numbers)
       THEN /\ stderr' = Append(stderr, UsageMsg)
            /\ exit' = <<1>>
            /\ pc' = "usage_exit"
       ELSE /\ pc' = "let_d"
            /\ UNCHANGED <<stderr, exit>>
    /\ UNCHANGED <<args, i, numbers, d, j, calls, stdout, gpc>>
    /\ UNCHANGED frameVars

\* let mut d = numbers[0];
LetD ==
    /\ pc = "let_d"
    /\ IF Len(numbers) = 0
       THEN /\ pc' = "index_panic"
            /\ stderr' = Append(stderr, IndexMsg)
            /\ exit' = <<101>>
            /\ UNCHANGED <<d, j>>
       ELSE /\ d' = <<numbers[1]>>
            /\ j' = 2
            /\ pc' = "fold"
            /\ UNCHANGED <<stderr, exit>>
    /\ UNCHANGED <<args, i, numbers, calls, stdout, gpc>>
    /\ UNCHANGED frameVars

\* for m in &numbers[1..] { ... gcd(d, *m) : the call
FoldCall ==
    /\ pc = "fold" /\ j <= Len(numbers)
    /\ pc' = "call"
    /\ gpc' = "assert"
    /\ n' = d[1] /\ m' = numbers[j]
    /\ n0' = d[1] /\ m0' = numbers[j]
    /\ iters' = 0
    /\ ret' = <<>>
    /\ calls' = Append(calls, <<d[1], numbers[j]>>)
    /\ UNCHANGED <<args, i, numbers, d, j, stdout, stderr, exit>>

\* d = gcd(d, *m) : the assignment of the returned value
FoldAssign ==
    /\ pc = "call" /\ gpc = "returned"
    /\ d' = ret
    /\ j' = j + 1
    /\ pc' = "fold"
    /\ gpc' = "idle"
    /\ n' = 0 /\ m' = 0 /\ n0' = 0 /\ m0' = 0 /\ iters' = 0
    /\ UNCHANGED <<args, i, numbers, calls, stdout, stderr, exit, ret>>

\* The slice numbers[1..] is exhausted.
FoldEnd ==
    /\ pc = "fold" /\ j > Len(numbers)
    /\ pc' = "print"
    /\ UNCHANGED <<args, i, numbers, d, j, calls, stdout, stderr, exit, gpc>>
    /\ UNCHANGED frameVars

\* println!("The greatest common divisor of {:?} is {}", numbers, d)
PrintResult ==
    /\ pc = "print"
    /\ stdout' = Append(stdout, [list |-> numbers, R |-> d[1]])
    /\ pc' = "done"
    /\ exit' = <<0>>
    /\ UNCHANGED <<args, i, numbers, d, j, calls, stderr, gpc>>
    /\ UNCHANGED frameVars

\* ----------------------------------------------------------- gcd, steps

GcdAssert ==
    /\ gpc = "assert"
    /\ IF AssertOk(n, m)
       THEN /\ gpc' = "while"
            /\ UNCHANGED <<pc, stderr, exit>>
       ELSE /\ gpc' = "panic"
            /\ pc' = IF pc = "call" THEN "assert_panic" ELSE pc
            /\ stderr' = Append(stderr, AssertMsg)
            /\ exit' = <<101>>
    /\ UNCHANGED <<args, i, numbers, d, j, calls, stdout>>
    /\ UNCHANGED frameVars

\* while m != 0
GcdWhile ==
    /\ gpc = "while"
    /\ gpc' = IF m # 0 THEN "if" ELSE "ret"
    /\ UNCHANGED <<stderr, exit>>
    /\ UNCHANGED mainVars
    /\ UNCHANGED frameVars

GcdSwap ==
    /\ gpc = "if"
    /\ n' = SwapStep(n, m)[1]
    /\ m' = SwapStep(n, m)[2]
    /\ gpc' = "mod"
    /\ UNCHANGED <<stderr, exit, n0, m0, iters, ret>>
    /\ UNCHANGED mainVars

GcdMod ==
    /\ gpc = "mod"
    /\ IF n = 0
       THEN /\ gpc' = "panic"
            /\ pc' = IF pc = "call" THEN "rem_panic" ELSE pc
            /\ stderr' = Append(stderr, RemMsg)
            /\ exit' = <<101>>
            /\ UNCHANGED <<m, iters>>
       ELSE /\ m' = RemStep(n, m)
            /\ iters' = iters + 1
            /\ gpc' = "while"
            /\ UNCHANGED <<pc, stderr, exit>>
    /\ UNCHANGED <<args, i, numbers, d, j, calls, stdout, n, n0, m0, ret>>

\* the tail expression n
GcdReturn ==
    /\ gpc = "ret"
    /\ ret' = <<n>>
    /\ gpc' = "returned"
    /\ UNCHANGED <<stderr, exit, n, m, n0, m0, iters>>
    /\ UNCHANGED mainVars

GcdNext == GcdAssert \/ GcdWhile \/ GcdSwap \/ GcdMod \/ GcdReturn

Next ==
    \/ ParseArg \/ ParseEnd \/ CheckLen \/ LetD
    \/ FoldCall \/ FoldAssign \/ FoldEnd \/ PrintResult
    \/ GcdAssert \/ GcdWhile \/ GcdSwap \/ GcdMod \/ GcdReturn

Spec == Init /\ [][Next]_vars

\* gcd(a, b) called directly, as test_gcd calls it.
GcdInit ==
    /\ args = <<>>
    /\ i = 0
    /\ numbers = <<>>
    /\ pc = "test"
    /\ d = <<>>
    /\ j = 0
    /\ calls = <<>>
    /\ stdout = <<>>
    /\ stderr = <<>>
    /\ exit = <<>>
    /\ gpc = "assert"
    /\ n \in 0..MaxU64 /\ m \in 0..MaxU64
    /\ n0 = n /\ m0 = m
    /\ iters = 0
    /\ ret = <<>>

GcdSpec == GcdInit /\ [][GcdNext]_vars

FairGcdSpec == GcdSpec /\ WF_vars(GcdNext)

\* ------------------------------------------------------------ properties

Max(x, y) == IF x >= y THEN x ELSE y

Range(s) == {s[k] : k \in 1..Len(s)}

CommonDivisor(g, S) == \A x \in S : x % g = 0

\* The greatest common divisor of a non-empty set of positive integers.
SetGcd(S) ==
    CHOOSE g \in 1..MaxU64 :
        /\ CommonDivisor(g, S)
        /\ \A h \in (g + 1)..MaxU64 : ~CommonDivisor(h, S)

Prefix(s, k) == {s[q] : q \in 1..k}

AllParse == \A k \in 1..Len(args) : ParseU64(args[k]).ok

Parsed == [k \in 1..Len(args) |-> ParseU64(args[k]).val]

SomeFails == \E k \in 1..Len(args) : ~ParseU64(args[k]).ok

FirstBad ==
    CHOOSE k \in 1..Len(args) :
        /\ ~ParseU64(args[k]).ok
        /\ \A q \in 1..(k - 1) : ParseU64(args[q]).ok

\* d = numbers[0]; d = gcd(d, m) for each later m, with gcd as GcdLoop.
RECURSIVE FoldFrom(_, _, _)
FoldFrom(s, k, acc) ==
    IF k > Len(s) THEN acc ELSE FoldFrom(s, k + 1, GcdLoop(acc, s[k]))

Fold(s) == FoldFrom(s, 2, s[1])

Reorderings(s) ==
    {[k \in 1..Len(s) |-> s[f[k]]] :
        f \in {g \in [1..Len(s) -> 1..Len(s)] :
                 \A x, y \in 1..Len(s) : g[x] = g[y] => x = y}}

\* C1: when gcd(a, b) returns for non-zero a and b, the returned g is at
\* least 1, divides a, divides b, and no larger integer divides both.
C1_GcdIsGreatest ==
    (gpc = "returned" /\ n0 # 0 /\ m0 # 0) =>
        /\ Len(ret) = 1
        /\ ret[1] >= 1
        /\ n0 % ret[1] = 0
        /\ m0 % ret[1] = 0
        /\ \A h \in (ret[1] + 1)..Max(n0, m0) : ~(n0 % h = 0 /\ m0 % h = 0)

C1_Witness ==
    gpc = "returned" /\ n0 = 12 /\ m0 = 8 /\ ret = <<4>> /\ iters >= 2

\* C2: for a non-empty argument list parsing to non-zero values, d starts as
\* numbers[0], the k-th invocation of gcd is gcd(gcd of the first k
\* elements, element k+1), there is one invocation per later element, and
\* the single output line carries the gcd of all the elements.
C2_FoldIsGcdOfList ==
    (Len(args) >= 1 /\ AllParse /\ \A k \in 1..Len(args) : Parsed[k] # 0) =>
        /\ (pc = "fold" /\ calls = <<>>) => d = <<Parsed[1]>>
        /\ \A k \in 1..Len(calls) :
              calls[k] = <<SetGcd(Prefix(Parsed, k)), Parsed[k + 1]>>
        /\ pc \in {"fold", "call"} => Len(calls) = j - (IF pc = "fold" THEN 2 ELSE 1)
        /\ pc \in {"print", "done"} =>
              /\ numbers = Parsed
              /\ Len(calls) = Len(numbers) - 1
              /\ d = <<SetGcd(Range(numbers))>>
        /\ pc = "done" =>
              /\ Len(stdout) = 1
              /\ stdout[1].list = Parsed
              /\ stdout[1].R = SetGcd(Range(Parsed))
        /\ pc # "done" => stdout = <<>>

C2_Witness ==
    /\ pc = "done"
    /\ numbers = <<6, 10, 15>>
    /\ calls = <<<<6, 10>>, <<2, 15>>>>
    /\ stdout = <<[list |-> <<6, 10, 15>>, R |-> 1]>>

ParsedWithZero == AllParse /\ \E k \in 1..Len(args) : Parsed[k] = 0

\* C3 as stated: whenever all arguments parse and one of them is zero, a
\* run that has ended has ended in the assertion abort of gcd, and nothing
\* is ever written to standard output.
C3_AnyZeroAborts ==
    ParsedWithZero =>
        /\ stdout = <<>>
        /\ ~Running => pc = "assert_panic" /\ gpc = "panic"

\* C3, amended: the same for lists of at least two elements.  Such a run
\* cannot stop anywhere but in the abort.
C3_ZeroAmongSeveralAborts ==
    (ParsedWithZero /\ Len(args) >= 2) =>
        /\ stdout = <<>>
        /\ pc \notin {"print", "done", "usage_exit"}
        /\ ~Running =>
              /\ pc = "assert_panic" /\ gpc = "panic"
              /\ exit = <<101>>
              /\ stderr = <<AssertMsg>>
              /\ n0 = 0 \/ m0 = 0
        /\ Running => ENABLED Next

C3_Witness ==
    /\ pc = "assert_panic"
    /\ numbers = <<6, 10, 0>>
    /\ calls = <<<<6, 10>>, <<2, 0>>>>
    /\ stdout = <<>>

\* C4: if some argument fails to parse, the run ends at the first such
\* argument: nothing after it is consumed, gcd is never invoked, neither
\* the usage message nor a result line is written.
C4_StopsAtFirstBadArgument ==
    SomeFails =>
        /\ i <= FirstBad
        /\ Len(numbers) <= FirstBad - 1
        /\ calls = <<>> /\ gpc = "idle"
        /\ stdout = <<>>
        /\ \A k \in 1..Len(stderr) : stderr[k] # UsageMsg
        /\ pc \in {"parse", "parse_panic"}
        /\ pc = "parse_panic" <=> i = FirstBad
        /\ pc = "parse_panic" <=> ~Running
        /\ Running => ENABLED Next

C4_Witness ==
    /\ pc = "parse_panic"
    /\ Len(args) = 3
    /\ i = 2
    /\ numbers = <<6>>
    /\ ParseU64(args[3]).ok

\* C5 as stated: the diagnostic of a failed parse tells the failing
\* argument apart from every other text failing with the same cause.
C5_DiagnosticNamesArgument ==
    pc = "parse_panic" =>
        \A t \in ArgTexts \ {args[i]} :
            ParseU64(t).kind = ParseU64(args[i]).kind =>
                ParseDiagnostic(t, ParseU64(t).kind) # stderr[Len(stderr)]

\* C5, amended: the diagnostic is the fixed text "error parsing argument"
\* with the cause of the failure; it does not carry the argument, so texts
\* failing with the same cause give the same diagnostic.
C5_DiagnosticIsTextAndCause ==
    pc = "parse_panic" =>
        /\ stderr = <<<<"error parsing argument", ParseU64(args[i]).kind>>>>
        /\ ParseU64(args[i]).kind \in {"Empty", "InvalidDigit", "PosOverflow"}
        /\ \A t \in ArgTexts :
              ParseU64(t).kind = ParseU64(args[i]).kind =>
                  ParseDiagnostic(t, ParseU64(t).kind) = stderr[1]

C5_Witness ==
    /\ pc = "parse_panic"
    /\ args = <<<<"6">>, <<"-", "6">>>>
    /\ stderr = <<<<"error parsing argument", "InvalidDigit">>>>

\* C6: with no arguments the run writes the usage message to standard
\* error and exits with status 1 without invoking gcd, reading numbers[0]
\* or writing to standard output; the usage exit is taken by no other run.
C6_UsageOnlyWhenEmpty ==
    /\ Len(args) = 0 =>
          /\ pc \in {"parse", "check", "usage_exit"}
          /\ d = <<>> /\ calls = <<>> /\ gpc = "idle" /\ stdout = <<>>
          /\ ~Running => pc = "usage_exit"
          /\ Running => ENABLED Next /\ stderr = <<>>
    /\ pc = "usage_exit" =>
          /\ Len(args) = 0
          /\ stderr = <<UsageMsg>>
          /\ exit = <<1>>
    /\ UsageMsg \in Range(stderr) => pc = "usage_exit"

C6_Witness ==
    pc = "usage_exit" /\ args = <<>> /\ exit = <<1>> /\ stderr = <<UsageMsg>>

\* C7: once main has folded a list of non-zero values, folding any
\* reordering of the list gives the same d; for two values a and b,
\* gcd(a, b) = gcd(b, a).
C7_FoldOrderIndependent ==
    (pc \in {"print", "done"} /\ \A k \in 1..Len(numbers) : numbers[k] # 0) =>
        /\ \A p \in Reorderings(numbers) : Fold(p) = d[1]
        /\ \A x, y \in Range(numbers) \cup 1..MaxU64 :
              GcdLoop(x, y) = GcdLoop(y, x)

C7_Witness ==
    pc = "done" /\ numbers = <<10, 15, 6>> /\ d = <<1>>

\* C8 as stated: an iteration swaps the operands when the second is
\* smaller than the first, then replaces the second operand by the
\* remainder of dividing the first operand by the second; the loop is left
\* when the second operand is zero and the first operand is returned.
C8_RemainderOfFirstBySecond ==
    [][/\ gpc = "while" =>
            /\ gpc' = (IF m = 0 THEN "ret" ELSE "if")
            /\ n' = n /\ m' = m
       /\ gpc = "if" =>
            /\ gpc' = "mod"
            /\ IF m < n THEN n' = m /\ m' = n ELSE n' = n /\ m' = m
       /\ gpc = "mod" =>
            /\ gpc' = "while"
            /\ n' = n
            /\ m' = n % m
       /\ gpc = "ret" =>
            /\ gpc' = "returned"
            /\ ret' = <<n>>
            /\ m = 0]_vars

\* C8, amended: the same, the second operand being replaced by the
\* remainder of dividing the second operand by the first.
C8_LoopSteps ==
    [][/\ gpc = "while" =>
            /\ gpc' = (IF m = 0 THEN "ret" ELSE "if")
            /\ n' = n /\ m' = m
       /\ gpc = "if" =>
            /\ gpc' = "mod"
            /\ IF m < n THEN n' = m /\ m' = n ELSE n' = n /\ m' = m
       /\ gpc = "mod" =>
            /\ gpc' = "while"
            /\ n' = n
            /\ m' = m % n
       /\ gpc = "ret" =>
            /\ gpc' = "returned"
            /\ ret' = <<n>>
            /\ m = 0]_vars

C8_Witness ==
    gpc = "returned" /\ n0 = 15 /\ m0 = 6 /\ iters = 2 /\ ret = <<3>>

\* C9: for non-zero inputs gcd returns, with m zero, and from the second
\* iteration on every iteration strictly decreases n.
C9_Terminates ==
    /\ (gpc = "assert" /\ n # 0 /\ m # 0) ~> (gpc = "returned" /\ m = 0)
    /\ [][(gpc = "if" /\ iters >= 1) => n' < n]_vars
    /\ [][(gpc = "mod" /\ iters >= 1) => n' = n]_vars

C9_Witness ==
    gpc = "returned" /\ n0 = 10 /\ m0 = 14 /\ iters = 3 /\ m = 0

\* C10: inside gcd(a, b), past the assertion, 1 <= n <= max(a, b) and
\* 0 <= m <= max(a, b); n is non-zero wherever m % n is evaluated, the
\* remainder is smaller than n, and every value fits the word.
C10_OperandsBounded ==
    gpc \in {"while", "if", "mod", "ret", "returned"} =>
        /\ 1 <= n /\ n <= Max(n0, m0)
        /\ 0 <= m /\ m <= Max(n0, m0)
        /\ n <= MaxU64 /\ m <= MaxU64
        /\ gpc = "mod" => n # 0 /\ m % n < n /\ m % n <= MaxU64

C10_Witness ==
    gpc = "mod" /\ n0 = 15 /\ m0 = 4 /\ n = 3 /\ m = 4 /\ iters = 1

====
